---- MODULE Spec2Model ----
(***************************************************************************)
(* Request routing and relay engine of new-api-workers: channel selection, *)
(* the per-model selection cache, admission of API keys, the relay of      *)
(* chat-completions and embeddings requests and the quota ledger writes.   *)
(***************************************************************************)
EXTENDS Integers, Sequences, FiniteSets, TLC

(***************************************************************************)
(* Bounds of the model.                                                    *)
(***************************************************************************)
NumChannels == 2
MaxWeight == 2
DrawScale == 2
NumReq == 2
MaxTokens == 1
MaxChunks == 1
TickStep == 30
MaxTime == 90
MaxFailures == 1
MaxArrivals == 1

(***************************************************************************)
(* Program constants.                                                      *)
(***************************************************************************)
ChannelStatusDisabled == 0
ChannelStatusEnabled == 1
ChannelStatusTesting == 2

TokenStatusDisabled == 0
TokenStatusEnabled == 1
TokenStatusExpired == 2

UserStatusEnabled == 1

\* ttlSeconds of the per-model channel list
CacheTtl == 60

\* quota charged per completion token
CompletionRatio == 3

\* status of the response hono's stream() helper builds
StreamStatus == 200

ChannelIds == 1..NumChannels
Req == 1..NumReq
TokenIds == {1}
UserIds == {1}
Priorities == {0, 1}
Weights == 0..MaxWeight

(***************************************************************************)
(* Strings are sequences of characters, so that split(',') and trim() are  *)
(* computed and not assumed.  Model names are the one-character strings    *)
(* "a" and "b".                                                            *)
(***************************************************************************)
EmptyString == << >>
ModelA == <<"a">>
ModelB == <<"b">>
Star == <<"*">>
Models == {ModelA, ModelB}

\* models / allow-list columns that the administration can store
ModelStrings ==
    { EmptyString,
      <<" ">>,
      <<"a">>,
      <<"b", ",", " ", "a">>,
      <<" ", "*">>,
      <<"b">> }

RECURSIVE TrimLeft(_)
TrimLeft(s) ==
    IF Len(s) > 0 /\ Head(s) = " " THEN TrimLeft(Tail(s)) ELSE s

RECURSIVE TrimRight(_)
TrimRight(s) ==
    IF Len(s) > 0 /\ s[Len(s)] = " " THEN TrimRight(SubSeq(s, 1, Len(s) - 1)) ELSE s

\* String.prototype.trim
Trim(s) == TrimRight(TrimLeft(s))

\* String.prototype.split(','): the empty string splits into one empty piece
RECURSIVE Split(_)
Split(s) ==
    IF \E i \in 1..Len(s) : s[i] = ","
    THEN LET i == CHOOSE k \in 1..Len(s) :
                      s[k] = "," /\ \A j \in 1..(k - 1) : s[j] # ","
         IN  <<SubSeq(s, 1, i - 1)>> \o Split(SubSeq(s, i + 1, Len(s)))
    ELSE <<s>>

\* Array.prototype.includes
Includes(list, x) == \E i \in 1..Len(list) : list[i] = x

MapTrim(list) == [i \in 1..Len(list) |-> Trim(list[i])]

(***************************************************************************)
(* State.                                                                  *)
(***************************************************************************)
VARIABLES
    registry,   \* channels table: channel id -> row, for the ids that exist
    sel,        \* arguments and result of the latest selectChannel call
    tokens,     \* tokens table: token id -> row
    users,      \* users table: user id -> row
    logs,       \* logs table: the rows in the order they were inserted
    cache,      \* Cache API entries "channels:model:<model>": model -> entry
    now,        \* wall clock, in seconds
    req,        \* the requests: request -> locals of its handler and its response
    reached     \* for each token, what was in flight when used_quota first reached quota

vars == <<registry, sel, tokens, users, logs, cache, now, req, reached>>

relayVars == <<tokens, users, logs, cache, now, req, reached>>

\* a row of the channels table, as SELECT * returns it
ChannelRow(id, status, models, priority, weight) ==
    [id |-> id, status |-> status, models |-> models,
     priority |-> priority, weight |-> weight]

NullChannel == [id |-> 0]

(***************************************************************************)
(* ChannelService.                                                         *)
(***************************************************************************)
\* ORDER BY priority DESC, weight DESC
OrderedBefore(x, y) ==
    \/ x.priority > y.priority
    \/ x.priority = y.priority /\ x.weight >= y.weight

\* findEnabled: the enabled rows in the order of the query; rows that tie on
\* both sort keys come in an order the store chooses
\* the query without its WHERE status = 1
findEnabledAnyStatus(reg) ==
    LET ids == DOMAIN reg
        n   == Cardinality(ids)
        orders == {s \in [1..n -> ids] :
                      /\ \A i, j \in 1..n : i # j => s[i] # s[j]
                      /\ \A i, j \in 1..n : i < j => OrderedBefore(reg[s[i]], reg[s[j]])}
    IN  {[i \in 1..n |-> reg[s[i]]] : s \in orders}

findEnabled(reg) ==
    LET ids == {c \in DOMAIN reg : reg[c].status = ChannelStatusEnabled}
        n   == Cardinality(ids)
        orders == {s \in [1..n -> ids] :
                      /\ \A i, j \in 1..n : i # j => s[i] # s[j]
                      /\ \A i, j \in 1..n : i < j => OrderedBefore(reg[s[i]], reg[s[j]])}
    IN  {[i \in 1..n |-> reg[s[i]]] : s \in orders}

\* the filter without its '*' branch
ServesModelNoStar(ch, model) ==
    IF Trim(ch.models) = EmptyString
    THEN TRUE
    ELSE Includes(MapTrim(Split(ch.models)), model)

\* the filter of findEnabledForModel
ServesModel(ch, model) ==
    IF Trim(ch.models) = EmptyString
    THEN TRUE
    ELSE LET models == MapTrim(Split(ch.models))
         IN  Includes(models, model) \/ Includes(models, Star)

findEnabledForModel(reg, model) ==
    {SelectSeq(channels, LAMBDA ch : ServesModel(ch, model)) : channels \in findEnabled(reg)}

RECURSIVE SumWeights(_)
SumWeights(channels) ==
    IF channels = << >> THEN 0 ELSE Head(channels).weight + SumWeights(Tail(channels))

\* the values Math.random() * totalWeight can take, in units of 1/DrawScale
RandomDraws(totalWeight) ==
    IF totalWeight > 0 THEN 0..(totalWeight * DrawScale - 1) ELSE {0}

\* the loop with every channel counted as weight 1
RECURSIVE SelectWalkUnweighted(_, _, _)
SelectWalkUnweighted(channels, i, random) ==
    IF i > Len(channels)
    THEN channels[1]
    ELSE LET rest == random - DrawScale
         IN  IF rest <= 0 THEN channels[i] ELSE SelectWalkUnweighted(channels, i + 1, rest)

\* the for-loop of selectChannel from position i on, random in units of 1/DrawScale
RECURSIVE SelectWalk(_, _, _)
SelectWalk(channels, i, random) ==
    IF i > Len(channels)
    THEN channels[1]
    ELSE LET rest == random - channels[i].weight * DrawScale
         IN  IF rest <= 0 THEN channels[i] ELSE SelectWalk(channels, i + 1, rest)

\* a selection that gives up when no channel of the list has any weight
selectChannelNoZeroWeight(channels, random) ==
    IF Len(channels) = 0 \/ SumWeights(channels) = 0
    THEN NullChannel
    ELSE SelectWalk(channels, 1, random)

selectChannel(channels, random) ==
    IF Len(channels) = 0 THEN NullChannel ELSE SelectWalk(channels, 1, random)

NoSelection == [called |-> FALSE]

\* rows the administration can store for channel id: every status with every
\* allow-list, and every priority with every weight
AllowListRows(id) ==
    {ChannelRow(id, s, m, 0, 1) :
        s \in {ChannelStatusDisabled, ChannelStatusEnabled, ChannelStatusTesting},
        m \in ModelStrings}

WeightRows(id) ==
    {ChannelRow(id, ChannelStatusEnabled, EmptyString, p, w) :
        p \in Priorities, w \in Weights}

\* the registries whose row of channel c is one of rows[c], for the ids that exist
RegistriesOf(rows) ==
    UNION {{reg \in [S -> UNION {rows[c] : c \in S}] : \A c \in S : reg[c].id = c} :
              S \in SUBSET ChannelIds}

RegistryInputs ==
    RegistriesOf([c \in ChannelIds |-> AllowListRows(c)])
        \cup RegistriesOf([c \in ChannelIds |-> WeightRows(c)])

(***************************************************************************)
(* Rows of the tokens, users and logs tables, cache entries, request       *)
(* locals.                                                                 *)
(***************************************************************************)
\* expired_at IS NULL
NoExpiry == -1

TokenKey(t) == <<"sk", t>>
UnknownKey == <<"sk", 0>>
NoKey == << >>

TokenRow(t, status, quota, models, expired_at) ==
    [id |-> t, user_id |-> 1, key |-> TokenKey(t), status |-> status,
     quota |-> quota, used_quota |-> 0, request_count |-> 0,
     models |-> models, expired_at |-> expired_at]

UserRow == [status |-> UserStatusEnabled, used_quota |-> 0, request_count |-> 0]

LogRow(rec) ==
    [user_id |-> rec.userId, token_id |-> rec.tokenId, channel_id |-> rec.channel.id,
     model |-> rec.model, prompt_tokens |-> rec.promptTokens,
     completion_tokens |-> rec.completionTokens, quota |-> rec.quota,
     request_id |-> rec.requestId, status_code |-> rec.upstream]

NoEntry == [present |-> FALSE]
CacheEntry(value, at) == [present |-> TRUE, value |-> value, at |-> at]

\* the locals of one request and what its caller has received so far
NewRequest(r) ==
    [requestId |-> r, pc |-> "new", endpoint |-> "none", admitted |-> FALSE,
     tokenId |-> 0, userId |-> 0, tokenModels |-> EmptyString,
     model |-> EmptyString, channels |-> << >>, channel |-> NullChannel,
     outbound |-> 0, cacheReads |-> 0, registryReads |-> 0,
     mode |-> "none", upstream |-> 0, bodyless |-> FALSE,
     received |-> << >>, written |-> << >>, connected |-> TRUE,
     dropped |-> 0, scanned |-> 0,
     usage |-> [present |-> FALSE], promptTokens |-> 0, completionTokens |-> 0,
     quota |-> 0,
     log |-> "none", tokenDebit |-> "none", userDebit |-> "none",
     status |-> 0, code |-> "none"]

NotReached == [happened |-> FALSE]

InitRelay ==
    /\ tokens = [t \in TokenIds |-> TokenRow(t, TokenStatusEnabled, 0, EmptyString, NoExpiry)]
    /\ users = [u \in UserIds |-> UserRow]
    /\ logs = << >>
    /\ cache = [m \in Models |-> NoEntry]
    /\ now = 0
    /\ req = [r \in Req |-> NewRequest(r)]
    /\ reached = [t \in TokenIds |-> NotReached]

\* c.json(error, status) or new Response(body, {status}): the handler returns
Respond(rec, status, code) ==
    [rec EXCEPT !.pc = "done", !.status = status, !.code = code]

(***************************************************************************)
(* utils: parseAuthHeader, parseModelsString, isModelAllowed.              *)
(***************************************************************************)
\* an Authorization header: absent, or "Bearer " + rest, or rest alone
NoHeader == [present |-> FALSE, bearer |-> FALSE, rest |-> NoKey]
AuthHeaders(keys) ==
    {NoHeader} \cup {[present |-> TRUE, bearer |-> b, rest |-> k] : b \in BOOLEAN, k \in keys}

\* null and '' are both falsy for the caller's !key
parseAuthHeader(header) ==
    IF ~header.present \/ (~header.bearer /\ header.rest = NoKey)
    THEN NoKey
    ELSE header.rest

parseModelsString(models) ==
    IF Trim(models) = EmptyString
    THEN << >>
    ELSE SelectSeq(MapTrim(Split(models)), LAMBDA m : Len(m) > 0)

\* a check that only asks for an allow-list with a name in it
isModelAllowedAnyName(model, allowedModels) ==
    IF Trim(allowedModels) = EmptyString
    THEN TRUE
    ELSE Len(parseModelsString(allowedModels)) > 0

isModelAllowed(model, allowedModels) ==
    IF Trim(allowedModels) = EmptyString
    THEN TRUE
    ELSE LET allowed == parseModelsString(allowedModels)
         IN  Includes(allowed, model) \/ Includes(allowed, Star)

(***************************************************************************)
(* apiKeyAuth and TokenService.validateAndGet.                             *)
(***************************************************************************)
\* the checks with a quota that still admits at used_quota = quota
validateAndGetAtQuota(token, clock) ==
    IF token.status # TokenStatusEnabled THEN "null"
    ELSE IF token.expired_at # NoExpiry /\ token.expired_at < clock THEN "expired"
    ELSE IF token.quota > 0 /\ token.used_quota > token.quota THEN "null"
    ELSE "token"

\* the checks of validateAndGet on the row findByKey returned: "token" when the
\* row is returned, "expired" when updateStatus(EXPIRED) comes first, else "null"
validateAndGet(token, clock) ==
    IF token.status # TokenStatusEnabled THEN "null"
    ELSE IF token.expired_at # NoExpiry /\ token.expired_at < clock THEN "expired"
    ELSE IF token.quota > 0 /\ token.used_quota >= token.quota THEN "null"
    ELSE "token"

\* apiKeyAuth up to the return of validateAndGet's findByKey and checks; the
\* requests are numbered in the order in which they arrive
Auth(r, header) ==
    /\ req[r].pc = "new"
    /\ \A q \in Req : q < r => req[q].pc # "new"
    /\ LET key   == parseAuthHeader(header)
           found == {t \in DOMAIN tokens : tokens[t].key = key}
       IN  IF key = NoKey
           THEN req' = [req EXCEPT ![r] = Respond(@, 401, "missing_api_key")]
           ELSE IF found = {}
           THEN req' = [req EXCEPT ![r] = Respond(@, 401, "invalid_api_key")]
           ELSE LET token   == tokens[CHOOSE t \in found : TRUE]
                    verdict == validateAndGet(token, now)
                IN  IF verdict = "token"
                    THEN req' = [req EXCEPT ![r] =
                                    [@ EXCEPT !.pc = "user", !.admitted = TRUE,
                                              !.tokenId = token.id,
                                              !.userId = token.user_id,
                                              !.tokenModels = token.models]]
                    ELSE IF verdict = "expired"
                    THEN req' = [req EXCEPT ![r] =
                                    [@ EXCEPT !.pc = "expire", !.tokenId = token.id]]
                    ELSE req' = [req EXCEPT ![r] = Respond(@, 401, "invalid_api_key")]
    /\ UNCHANGED <<registry, sel, tokens, users, logs, cache, now, reached>>

\* validateAndGet's updateStatus(token.id, EXPIRED), then 401
ExpireWrite(r) ==
    /\ req[r].pc = "expire"
    /\ tokens' = [tokens EXCEPT ![req[r].tokenId].status = TokenStatusExpired]
    /\ req' = [req EXCEPT ![r] = Respond(@, 401, "invalid_api_key")]
    /\ UNCHANGED <<registry, sel, users, logs, cache, now, reached>>

\* apiKeyAuth from userService.findById to next()
AuthUser(r) ==
    /\ req[r].pc = "user"
    /\ IF req[r].userId \notin DOMAIN users
          \/ users[req[r].userId].status # UserStatusEnabled
       THEN req' = [req EXCEPT ![r] = Respond(@, 403, "user_disabled")]
       ELSE req' = [req EXCEPT ![r].pc = "handler"]
    /\ UNCHANGED <<registry, sel, tokens, users, logs, cache, now, reached>>

(***************************************************************************)
(* relay.post('/v1/chat/completions') and relay.post('/v1/embeddings') up  *)
(* to the selection of a channel.                                          *)
(***************************************************************************)
\* a request body: not JSON, or JSON with its model field ('' when it is missing)
BadJson == [json |-> FALSE, model |-> EmptyString]
Bodies(models) == {BadJson} \cup {[json |-> TRUE, model |-> m] : m \in models \cup {EmptyString}}

\* from the start of the handler to the allow-list check
Begin(r, endpoint, body) ==
    /\ req[r].pc = "handler"
    /\ LET rec == [req[r] EXCEPT !.endpoint = endpoint]
       IN  IF ~body.json
           THEN IF endpoint = "chat"
                THEN req' = [req EXCEPT ![r] = Respond(rec, 400, "invalid_json")]
                ELSE req' = [req EXCEPT ![r] = Respond(rec, 500, "internal_error")]
           ELSE IF body.model = EmptyString
           THEN req' = [req EXCEPT ![r] = Respond(rec, 400, "missing_model")]
           ELSE IF ~isModelAllowed(body.model, rec.tokenModels)
           THEN req' = [req EXCEPT ![r] =
                           Respond([rec EXCEPT !.model = body.model], 403, "model_not_allowed")]
           ELSE req' = [req EXCEPT ![r] =
                           [rec EXCEPT !.model = body.model,
                                       !.pc = IF endpoint = "chat" THEN "cacheGet" ELSE "fetcher"]]
    /\ UNCHANGED <<registry, sel, tokens, users, logs, cache, now, reached>>

\* cache.match: an entry is served while it is younger than its max-age
cacheGet(entries, model, clock) ==
    IF entries[model].present /\ clock - entries[model].at < CacheTtl
    THEN entries[model]
    ELSE NoEntry

\* the selection without the answer for an empty list
AfterLookupNoEmptyCheck(rec, channels, random) ==
    LET channel == selectChannel(channels, random)
    IN  IF channel = NullChannel
        THEN Respond([rec EXCEPT !.channels = channels], 503, "channel_selection_failed")
        ELSE [rec EXCEPT !.channels = channels, !.channel = channel, !.pc = "dispatch"]

\* from the channel list to the selected channel
AfterLookup(rec, channels, random) ==
    IF Len(channels) = 0
    THEN Respond([rec EXCEPT !.channels = channels], 503, "no_channel_available")
    ELSE LET channel == selectChannel(channels, random)
         IN  IF channel = NullChannel
             THEN Respond([rec EXCEPT !.channels = channels], 503, "channel_selection_failed")
             ELSE [rec EXCEPT !.channels = channels, !.channel = channel, !.pc = "dispatch"]

\* cacheGetOrSet: cacheGet; on a hit the handler goes on with the cached list
CacheGet(r) ==
    /\ req[r].pc = "cacheGet"
    /\ LET cached == cacheGet(cache, req[r].model, now)
           rec    == [req[r] EXCEPT !.cacheReads = @ + 1]
       IN  IF cached.present
           THEN \E random \in RandomDraws(SumWeights(cached.value)) :
                    req' = [req EXCEPT ![r] = AfterLookup(rec, cached.value, random)]
           ELSE req' = [req EXCEPT ![r] = [rec EXCEPT !.pc = "fetcher"]]
    /\ UNCHANGED <<registry, sel, tokens, users, logs, cache, now, reached>>

\* channelService.findEnabledForModel: the fetcher of cacheGetOrSet (chat), or the
\* direct lookup followed by the selection (embeddings)
Fetcher(r) ==
    /\ req[r].pc = "fetcher"
    /\ \E channels \in findEnabledForModel(registry, req[r].model) :
           LET rec == [req[r] EXCEPT !.registryReads = @ + 1]
           IN  IF rec.endpoint = "chat"
               THEN req' = [req EXCEPT ![r] =
                               [rec EXCEPT !.channels = channels, !.pc = "cacheSet"]]
               ELSE \E random \in RandomDraws(SumWeights(channels)) :
                        req' = [req EXCEPT ![r] = AfterLookup(rec, channels, random)]
    /\ UNCHANGED <<registry, sel, tokens, users, logs, cache, now>>

\* cacheGetOrSet: cacheSet of the fetched list, then the handler goes on with it
CacheSet(r) ==
    /\ req[r].pc = "cacheSet"
    /\ cache' = [cache EXCEPT ![req[r].model] = CacheEntry(req[r].channels, now)]
    /\ \E random \in RandomDraws(SumWeights(req[r].channels)) :
           req' = [req EXCEPT ![r] = AfterLookup(@, req[r].channels, random)]
    /\ UNCHANGED <<registry, sel, tokens, users, logs, now, reached>>

(***************************************************************************)
(* Dispatch, the buffered and the streaming path, the ledger writes.       *)
(***************************************************************************)
\* what fetch() gives: a rejection, or a response with its status, whether its
\* content type is text/event-stream, and whether it has a body
FetchRejects == [kind |-> "reject", status |-> 0, sse |-> FALSE, hasBody |-> FALSE]
FetchResponses(statuses) ==
    {[kind |-> "response", status |-> st, sse |-> e, hasBody |-> b] :
        st \in statuses, e \in BOOLEAN, b \in BOOLEAN}

\* what response.text() gives: a rejection, text that is no JSON, JSON without a
\* usage object, JSON with one
TextRejects == [kind |-> "error", prompt |-> 0, completion |-> 0]
TextNoJson == [kind |-> "invalid", prompt |-> 0, completion |-> 0]
TextNoUsage == [kind |-> "nousage", prompt |-> 0, completion |-> 0]
TextUsage(p, c) == [kind |-> "usage", prompt |-> p, completion |-> c]

\* the usage objects of one chunk of the stream, each parsable or not
UsageObject(ok, p, c) == [ok |-> ok, prompt |-> p, completion |-> c]

\* a handler that writes the ledger, with no usage, when fetch() rejects
DispatchBillsUnreachable(r, outcome) ==
    /\ req[r].pc = "dispatch"
    /\ LET rec == [req[r] EXCEPT !.outbound = @ + 1]
       IN  IF outcome.kind = "reject"
           THEN req' = [req EXCEPT ![r] =
                           [rec EXCEPT !.mode = "buffered", !.pc = "ledger",
                                       !.log = "issued", !.tokenDebit = "issued",
                                       !.userDebit = "issued"]]
           ELSE IF rec.endpoint = "chat" /\ outcome.sse /\ outcome.hasBody
           THEN req' = [req EXCEPT ![r] =
                           [rec EXCEPT !.upstream = outcome.status, !.mode = "streamed",
                                       !.pc = "streaming", !.status = StreamStatus]]
           ELSE req' = [req EXCEPT ![r] =
                           [rec EXCEPT !.upstream = outcome.status, !.mode = "buffered",
                                       !.bodyless = ~outcome.hasBody, !.pc = "buffering"]]
    /\ UNCHANGED <<registry, sel, tokens, users, logs, cache, now, reached>>

\* proxyViaRelay: the one fetch() of the request, and the branch on its result
Dispatch(r, outcome) ==
    /\ req[r].pc = "dispatch"
    /\ LET rec == [req[r] EXCEPT !.outbound = @ + 1]
       IN  IF outcome.kind = "reject"
           THEN req' = [req EXCEPT ![r] = Respond(rec, 502, "upstream_error")]
           ELSE IF rec.endpoint = "chat" /\ outcome.sse /\ outcome.hasBody
           THEN req' = [req EXCEPT ![r] =
                           [rec EXCEPT !.upstream = outcome.status, !.mode = "streamed",
                                       !.pc = "streaming", !.status = StreamStatus]]
           ELSE req' = [req EXCEPT ![r] =
                           [rec EXCEPT !.upstream = outcome.status, !.mode = "buffered",
                                       !.bodyless = ~outcome.hasBody, !.pc = "buffering"]]
    /\ UNCHANGED <<registry, sel, tokens, users, logs, cache, now, reached>>

\* a quota that counts a completion token like a prompt token
ChatQuotaFlat(promptTokens, completionTokens) ==
    promptTokens + completionTokens

\* the billed quota of a chat completion
ChatQuota(promptTokens, completionTokens) ==
    promptTokens + completionTokens * CompletionRatio

\* Promise.all([logService.create, tokenService.updateUsage, userService.updateQuota]):
\* the three statements are sent before the first of them is awaited
IssueLedger(rec, promptTokens, completionTokens, quota) ==
    [rec EXCEPT !.promptTokens = promptTokens, !.completionTokens = completionTokens,
                !.quota = quota, !.pc = "ledger",
                !.log = "issued", !.tokenDebit = "issued", !.userDebit = "issued"]

\* parsed.usage of the body: absent when the text is no JSON or has no usage
ParsedUsage(text) ==
    IF text.kind = "usage"
    THEN [present |-> TRUE, prompt |-> text.prompt, completion |-> text.completion]
    ELSE [present |-> FALSE]

\* a buffered path that bills embeddings like chat completions
BufferingOneFormula(r, text) ==
    /\ req[r].pc = "buffering"
    /\ req[r].bodyless => text = TextNoJson
    /\ IF text.kind = "error"
       THEN req' = [req EXCEPT ![r] = Respond(@, 502, "upstream_error")]
       ELSE LET promptTokens     == IF text.kind = "usage" THEN text.prompt ELSE 0
                completionTokens == IF text.kind = "usage" THEN text.completion ELSE 0
            IN  req' = [req EXCEPT ![r] =
                            IssueLedger([@ EXCEPT !.usage = ParsedUsage(text)],
                                        promptTokens, completionTokens,
                                        ChatQuota(promptTokens, completionTokens))]
    /\ UNCHANGED <<registry, sel, tokens, users, logs, cache, now, reached>>

\* response.text(), the usage of the parsed body, the call of Promise.all
Buffering(r, text) ==
    /\ req[r].pc = "buffering"
    /\ req[r].bodyless => text = TextNoJson
    /\ IF text.kind = "error"
       THEN req' = [req EXCEPT ![r] = Respond(@, 502, "upstream_error")]
       ELSE LET promptTokens     == IF text.kind = "usage" THEN text.prompt ELSE 0
                completionTokens == IF text.kind = "usage" /\ req[r].endpoint = "chat"
                                    THEN text.completion ELSE 0
                quota == IF req[r].endpoint = "chat"
                         THEN ChatQuota(promptTokens, completionTokens)
                         ELSE promptTokens
            IN  req' = [req EXCEPT ![r] =
                            IssueLedger([@ EXCEPT !.usage = ParsedUsage(text)],
                                        promptTokens, completionTokens, quota)]
    /\ UNCHANGED <<registry, sel, tokens, users, logs, cache, now, reached>>

\* chunk.match(/"usage":\s*\{[^}]+\}/): the first usage object of the chunk, and
\* the counts after JSON.parse of it (kept as they were when it does not parse)
ScanChunk(rec, chunk) ==
    IF Len(chunk) > 0 /\ chunk[1].ok
    THEN [rec EXCEPT !.promptTokens = chunk[1].prompt,
                     !.completionTokens = chunk[1].completion,
                     !.scanned = @ + 1]
    ELSE [rec EXCEPT !.scanned = @ + 1]

\* a loop that scans the chunk as soon as it is read
StreamReadScanning(r, chunk) ==
    /\ req[r].pc = "streaming"
    /\ Len(req[r].received) < MaxChunks
    /\ req' = [req EXCEPT ![r] =
                  ScanChunk([@ EXCEPT !.received = Append(@, chunk), !.pc = "writing"],
                            chunk)]
    /\ UNCHANGED <<registry, sel, tokens, users, logs, cache, now, reached>>

\* reader.read() gives a chunk
StreamRead(r, chunk) ==
    /\ req[r].pc = "streaming"
    /\ Len(req[r].received) < MaxChunks
    /\ req' = [req EXCEPT ![r] =
                  [@ EXCEPT !.received = Append(@, chunk), !.pc = "writing"]]
    /\ UNCHANGED <<registry, sel, tokens, users, logs, cache, now, reached>>

\* the caller closes its connection while the response is streamed
Disconnect(r) ==
    /\ req[r].pc \in {"streaming", "writing"}
    /\ req[r].connected
    /\ req' = [req EXCEPT ![r].connected = FALSE]
    /\ UNCHANGED <<registry, sel, tokens, users, logs, cache, now, reached>>

\* await streamWriter.write(value), then the scan of the chunk.  The chunk reaches
\* a caller that is connected.  Once the caller is gone the write either rejects,
\* which takes the loop to its finally block, or resolves with nothing delivered.
StreamWrite(r, rejects) ==
    /\ req[r].pc = "writing"
    /\ rejects => ~req[r].connected
    /\ LET chunk == req[r].received[Len(req[r].received)]
       IN  IF req[r].connected
           THEN req' = [req EXCEPT ![r] =
                           ScanChunk([@ EXCEPT !.written = Append(@, chunk),
                                               !.pc = "streaming"], chunk)]
           ELSE IF rejects
           THEN req' = [req EXCEPT ![r] =
                           IssueLedger([@ EXCEPT !.dropped = @ + 1],
                                       @.promptTokens, @.completionTokens,
                                       ChatQuota(@.promptTokens, @.completionTokens))]
           ELSE req' = [req EXCEPT ![r] =
                           ScanChunk([@ EXCEPT !.dropped = @ + 1, !.pc = "streaming"],
                                     chunk)]
    /\ UNCHANGED <<registry, sel, tokens, users, logs, cache, now, reached>>

\* an end of the stream that closes it without the call of Promise.all
StreamEndWithoutFlush(r) ==
    /\ req[r].pc = "streaming"
    /\ req' = [req EXCEPT ![r].pc = "done"]
    /\ UNCHANGED <<registry, sel, tokens, users, logs, cache, now, reached>>

\* reader.read() reports done, or throws: the finally block calls Promise.all
StreamEnd(r) ==
    /\ req[r].pc = "streaming"
    /\ req' = [req EXCEPT ![r] =
                  IssueLedger(@, @.promptTokens, @.completionTokens,
                              ChatQuota(@.promptTokens, @.completionTokens))]
    /\ UNCHANGED <<registry, sel, tokens, users, logs, cache, now, reached>>

\* what follows await Promise.all once it settles: it rejects with the first write
\* that fails and resolves when all three have succeeded.  Buffered path: the catch
\* block answers 502, or the upstream's status is returned.  Streaming path: the
\* callback ends and the stream is closed.
Settle(rec) ==
    IF rec.pc # "ledger"
    THEN rec
    ELSE IF "failed" \in {rec.log, rec.tokenDebit, rec.userDebit}
    THEN IF rec.mode = "buffered"
         THEN Respond(rec, 502, "upstream_error")
         ELSE [rec EXCEPT !.pc = "done"]
    ELSE IF {rec.log, rec.tokenDebit, rec.userDebit} = {"ok"}
    THEN IF rec.mode = "buffered"
         THEN Respond(rec, rec.upstream, "none")
         ELSE [rec EXCEPT !.pc = "done"]
    ELSE rec

\* LogService.create: the INSERT runs, or fails
LogWrite(r, ok) ==
    /\ req[r].log = "issued"
    /\ logs' = IF ok THEN Append(logs, LogRow(req[r])) ELSE logs
    /\ req' = [req EXCEPT ![r] = Settle([@ EXCEPT !.log = IF ok THEN "ok" ELSE "failed"])]
    /\ UNCHANGED <<registry, sel, tokens, users, cache, now, reached>>

\* an update that stores the sum computed from the row as it was at admission
TokenDebitLostUpdate(r, ok) ==
    /\ req[r].tokenDebit = "issued"
    /\ tokens' = IF ok
                 THEN [tokens EXCEPT ![req[r].tokenId].used_quota = req[r].quota,
                                     ![req[r].tokenId].request_count = 1]
                 ELSE tokens
    /\ req' = [req EXCEPT ![r] =
                  Settle([@ EXCEPT !.tokenDebit = IF ok THEN "ok" ELSE "failed"])]
    /\ UNCHANGED <<registry, sel, users, logs, cache, now>>

\* TokenService.updateUsage: the UPDATE runs, or fails
TokenDebit(r, ok) ==
    /\ req[r].tokenDebit = "issued"
    /\ tokens' = IF ok
                 THEN [tokens EXCEPT ![req[r].tokenId].used_quota = @ + req[r].quota,
                                     ![req[r].tokenId].request_count = @ + 1]
                 ELSE tokens
    /\ req' = [req EXCEPT ![r] =
                  Settle([@ EXCEPT !.tokenDebit = IF ok THEN "ok" ELSE "failed"])]
    /\ UNCHANGED <<registry, sel, users, logs, cache, now>>

\* an update of the account by the prompt tokens alone
UserDebitPromptOnly(r, ok) ==
    /\ req[r].userDebit = "issued"
    /\ users' = IF ok
                THEN [users EXCEPT ![req[r].userId].used_quota = @ + req[r].promptTokens,
                                   ![req[r].userId].request_count = @ + 1]
                ELSE users
    /\ req' = [req EXCEPT ![r] =
                  Settle([@ EXCEPT !.userDebit = IF ok THEN "ok" ELSE "failed"])]
    /\ UNCHANGED <<registry, sel, tokens, logs, cache, now, reached>>

\* UserService.updateQuota: the UPDATE runs, or fails
UserDebit(r, ok) ==
    /\ req[r].userDebit = "issued"
    /\ users' = IF ok
                THEN [users EXCEPT ![req[r].userId].used_quota = @ + req[r].quota,
                                   ![req[r].userId].request_count = @ + 1]
                ELSE users
    /\ req' = [req EXCEPT ![r] =
                  Settle([@ EXCEPT !.userDebit = IF ok THEN "ok" ELSE "failed"])]
    /\ UNCHANGED <<registry, sel, tokens, logs, cache, now, reached>>

(***************************************************************************)
(* Administration and the clock.                                           *)
(***************************************************************************)
\* the row with the fields of data replacing its own
Patch(row, data) ==
    [f \in DOMAIN row |-> IF f \in DOMAIN data THEN data[f] ELSE row[f]]

\* channel.put('/:id'): findById, then ChannelService.update
ChannelUpdate(c, data) ==
    /\ c \in DOMAIN registry
    /\ registry' = [registry EXCEPT ![c] = Patch(@, data)]
    /\ UNCHANGED <<sel, tokens, users, logs, cache, now, req, reached>>

\* channel.delete('/:id'): findById, then ChannelService.delete
ChannelDelete(c) ==
    /\ c \in DOMAIN registry
    /\ registry' = [d \in DOMAIN registry \ {c} |-> registry[d]]
    /\ UNCHANGED <<sel, tokens, users, logs, cache, now, req, reached>>

\* token.put('/:id'): findById, then the UPDATE of the fields given
TokenUpdate(t, data) ==
    /\ t \in DOMAIN tokens
    /\ tokens' = [tokens EXCEPT ![t] = Patch(@, data)]
    /\ UNCHANGED <<registry, sel, users, logs, cache, now, req, reached>>

\* time passes
Tick ==
    /\ now + TickStep <= MaxTime
    /\ now' = now + TickStep
    /\ UNCHANGED <<registry, sel, tokens, users, logs, cache, req, reached>>

(***************************************************************************)
(* The relay: requests of both endpoints, every answer of the upstream,    *)
(* ledger writes that succeed or fail.                                     *)
(***************************************************************************)
UpstreamStatuses == {200, 500}

RelayTexts == {TextRejects, TextNoJson, TextNoUsage, TextUsage(MaxTokens, MaxTokens)}

RelayChunks == {<< >>, <<UsageObject(TRUE, MaxTokens, MaxTokens)>>}

\* channels that serve model "a" only: the first enabled, the others disabled
RelayRegistry ==
    [c \in ChannelIds |->
        ChannelRow(c, IF c = 1 THEN ChannelStatusEnabled ELSE ChannelStatusDisabled,
                   ModelA, 0, 1)]

\* the writes that have failed so far
FailedWrites ==
    {<<r, w>> \in Req \X {"log", "tokenDebit", "userDebit"} : req[r][w] = "failed"}

\* a write succeeds, or fails while the store has failures left
WriteOutcomes == IF Cardinality(FailedWrites) < MaxFailures THEN BOOLEAN ELSE {TRUE}

Init ==
    /\ registry = RelayRegistry
    /\ sel = NoSelection
    /\ tokens \in {[t \in TokenIds |-> TokenRow(t, TokenStatusEnabled, 0, m, NoExpiry)] :
                      m \in {EmptyString, ModelA}}
    /\ users = [u \in UserIds |-> UserRow]
    /\ logs = << >>
    /\ cache = [m \in Models |-> NoEntry]
    /\ now = 0
    /\ req = [r \in Req |-> NewRequest(r)]
    /\ reached = [t \in TokenIds |-> NotReached]

Next ==
    \E r \in Req :
        \/ \E header \in AuthHeaders({TokenKey(1), UnknownKey}) : Auth(r, header)
        \/ AuthUser(r)
        \/ \E endpoint \in {"chat", "embeddings"} :
               \E body \in Bodies(Models) : Begin(r, endpoint, body)
        \/ CacheGet(r)
        \/ Fetcher(r) /\ UNCHANGED reached
        \/ CacheSet(r)
        \/ \E outcome \in {FetchRejects} \cup FetchResponses(UpstreamStatuses) :
               Dispatch(r, outcome)
        \/ \E text \in RelayTexts : Buffering(r, text)
        \/ \E chunk \in RelayChunks : StreamRead(r, chunk)
        \/ Disconnect(r)
        \/ \E rejects \in BOOLEAN : StreamWrite(r, rejects)
        \/ StreamEnd(r)
        \/ \E ok \in WriteOutcomes : LogWrite(r, ok)
        \/ \E ok \in WriteOutcomes : TokenDebit(r, ok) /\ UNCHANGED reached
        \/ \E ok \in WriteOutcomes : UserDebit(r, ok)

Spec == Init /\ [][Next]_vars

(***************************************************************************)
(* Admission and debits on one token with a quota: requests that overlap,  *)
(* an expiry, an administrator who disables and enables the token.         *)
(***************************************************************************)
\* admitted requests of token t whose debit has not run yet
InFlight(t) ==
    {req[q].requestId :
        q \in {x \in Req : /\ req[x].admitted
                            /\ req[x].tokenId = t
                            /\ \/ req[x].tokenDebit = "issued"
                               \/ req[x].tokenDebit = "none" /\ req[x].pc # "done"}}

AdmittedOn(t) == {req[q].requestId : q \in {x \in Req : req[x].admitted /\ req[x].tokenId = t}}

\* the record of the moment the debit of r takes used_quota of its token to quota
\* for the first time: the requests admitted so far, those of them in flight, and
\* from then on the sum of what the requests in flight at that moment are billed
ReachedAfter(r, ok) ==
    LET t == req[r].tokenId
    IN  IF ~ok THEN reached
        ELSE IF /\ ~reached[t].happened
                /\ tokens[t].quota > 0
                /\ tokens[t].used_quota + req[r].quota >= tokens[t].quota
        THEN [reached EXCEPT ![t] = [happened |-> TRUE, admitted |-> AdmittedOn(t),
                                     inflight |-> InFlight(t), billed |-> req[r].quota]]
        ELSE IF reached[t].happened /\ req[r].requestId \in reached[t].inflight
        THEN [reached EXCEPT ![t].billed = @ + req[r].quota]
        ELSE reached

QuotaTexts == {TextUsage(p, 0) : p \in 0..MaxTokens}

InitQuota ==
    /\ registry = RelayRegistry
    /\ sel = NoSelection
    /\ tokens \in {[t \in TokenIds |->
                       TokenRow(t, TokenStatusEnabled, MaxTokens, EmptyString, e)] :
                      e \in {NoExpiry, TickStep}}
    /\ users = [u \in UserIds |-> UserRow]
    /\ logs = << >>
    /\ cache = [m \in Models |-> NoEntry]
    /\ now = 0
    /\ req = [r \in Req |-> NewRequest(r)]
    /\ reached = [t \in TokenIds |-> NotReached]

NextQuota ==
    \/ \E r \in Req :
           \/ \E header \in AuthHeaders({TokenKey(1)}) : Auth(r, header)
           \/ ExpireWrite(r)
           \/ AuthUser(r)
           \/ Begin(r, "embeddings", [json |-> TRUE, model |-> ModelA])
           \/ Fetcher(r) /\ UNCHANGED reached
           \/ Dispatch(r, [kind |-> "response", status |-> 200, sse |-> FALSE,
                           hasBody |-> TRUE])
           \/ \E text \in QuotaTexts : Buffering(r, text)
           \/ LogWrite(r, TRUE)
           \/ \E ok \in WriteOutcomes : TokenDebit(r, ok) /\ UNCHANGED reached
           \/ UserDebit(r, TRUE)
    \/ \E t \in TokenIds :
           \E st \in {TokenStatusDisabled, TokenStatusEnabled} :
               TokenUpdate(t, [status |-> st])
    \/ Tick

SpecQuota == InitQuota /\ [][NextQuota]_vars

(***************************************************************************)
(* The ledger of one token under embeddings requests whose upstream may    *)
(* report any usage count, a negative one included: the handler takes      *)
(* usage.prompt_tokens as it comes.  Requests keep arriving: a finished     *)
(* request makes room for the next one.                                    *)
(***************************************************************************)
LedgerTexts == {TextUsage(p, 0) : p \in (0 - MaxTokens)..MaxTokens}

\* the next request, with a requestId of its own
Arrive(r) ==
    /\ req[r].pc = "done"
    /\ req[r].requestId <= NumReq * MaxArrivals
    /\ req' = [req EXCEPT ![r] = NewRequest(req[r].requestId + NumReq)]
    /\ UNCHANGED <<registry, sel, tokens, users, logs, cache, now, reached>>

InitOverdraft ==
    /\ registry = RelayRegistry
    /\ sel = NoSelection
    /\ tokens = [t \in TokenIds |->
                    TokenRow(t, TokenStatusEnabled, MaxTokens, EmptyString, NoExpiry)]
    /\ users = [u \in UserIds |-> UserRow]
    /\ logs = << >>
    /\ cache = [m \in Models |-> NoEntry]
    /\ now = 0
    /\ req = [r \in Req |-> NewRequest(r)]
    /\ reached = [t \in TokenIds |-> NotReached]

\* the quota of the token stays as it is: the administrator only disables and
\* enables the token
NextOverdraft ==
    \/ \E r \in Req :
           \/ \E header \in AuthHeaders({TokenKey(1)}) : Auth(r, header)
           \/ AuthUser(r)
           \/ Begin(r, "embeddings", [json |-> TRUE, model |-> ModelA])
           \/ Fetcher(r) /\ UNCHANGED reached
           \/ Dispatch(r, [kind |-> "response", status |-> 200, sse |-> FALSE,
                           hasBody |-> TRUE])
           \/ \E text \in LedgerTexts : Buffering(r, text)
           \/ LogWrite(r, TRUE)
           \/ TokenDebit(r, TRUE) /\ reached' = ReachedAfter(r, TRUE)
           \/ UserDebit(r, TRUE)
           \/ Arrive(r)
    \/ \E t \in TokenIds :
           \E st \in {TokenStatusDisabled, TokenStatusEnabled} :
               TokenUpdate(t, [status |-> st])

SpecOverdraft == InitOverdraft /\ [][NextOverdraft]_vars

\* what token.put can store: any of status, quota, models and expired_at
TokenPatches ==
    {[status |-> st] : st \in {TokenStatusDisabled, TokenStatusEnabled}}
        \cup {[quota |-> q] : q \in {0, MaxTokens}}
        \cup {[models |-> m] : m \in {EmptyString, ModelB}}
        \cup {[expired_at |-> e] : e \in {NoExpiry, TickStep}}
        \cup {[status |-> TokenStatusEnabled, quota |-> 0, models |-> EmptyString,
               expired_at |-> NoExpiry]}

\* the same requests, under an administrator who updates every field of the token
NextLedger ==
    \/ \E r \in Req :
           \/ \E header \in AuthHeaders({TokenKey(1)}) : Auth(r, header)
           \/ ExpireWrite(r)
           \/ AuthUser(r)
           \/ Begin(r, "embeddings", [json |-> TRUE, model |-> ModelA])
           \/ Fetcher(r) /\ UNCHANGED reached
           \/ Dispatch(r, [kind |-> "response", status |-> 200, sse |-> FALSE,
                           hasBody |-> TRUE])
           \/ \E text \in LedgerTexts : Buffering(r, text)
           \/ LogWrite(r, TRUE)
           \/ \E ok \in WriteOutcomes : TokenDebit(r, ok) /\ UNCHANGED reached
           \/ UserDebit(r, TRUE)
    \/ \E t \in TokenIds : \E data \in TokenPatches : TokenUpdate(t, data)
    \/ Tick

SpecLedger == InitOverdraft /\ [][NextLedger]_vars

(***************************************************************************)
(* The selection cache under registry writes: chat requests up to the      *)
(* selection of a channel, channels enabled, disabled and deleted, entries *)
(* that age.                                                               *)
(***************************************************************************)
InitCache ==
    /\ registry = RelayRegistry
    /\ sel = NoSelection
    /\ InitRelay

NextCache ==
    \/ \E r \in Req :
           \/ Auth(r, [present |-> TRUE, bearer |-> TRUE, rest |-> TokenKey(1)])
           \/ AuthUser(r)
           \/ \E m \in Models : Begin(r, "chat", [json |-> TRUE, model |-> m])
           \/ CacheGet(r)
           \/ Fetcher(r) /\ UNCHANGED reached
           \/ CacheSet(r)
    \/ \E c \in ChannelIds :
           \/ \E st \in {ChannelStatusDisabled, ChannelStatusEnabled} :
                  ChannelUpdate(c, [status |-> st])
           \/ ChannelDelete(c)
    \/ Tick

SpecCache == InitCache /\ [][NextCache]_vars

(***************************************************************************)
(* The age of what the cache serves: chat requests for one model, channels *)
(* enabled and disabled by updates that stamp the row, a clock, and the    *)
(* order of the registry reads.                                            *)
(***************************************************************************)
\* the rows of RelayRegistry with the updated_at column
StaleRegistry ==
    [c \in ChannelIds |->
        [id |-> c,
         status |-> IF c = 1 THEN ChannelStatusEnabled ELSE ChannelStatusDisabled,
         models |-> ModelA, priority |-> 0, weight |-> 1, updated_at |-> 0]]

\* the requests that have read the registry, in the order of their reads
NoReads == [order |-> << >>]
ReadOrderAfter(r) == [reached EXCEPT !.order = Append(@, r)]

InitStale ==
    /\ registry = StaleRegistry
    /\ sel = NoSelection
    /\ tokens = [t \in TokenIds |->
                    TokenRow(t, TokenStatusEnabled, 0, EmptyString, NoExpiry)]
    /\ users = [u \in UserIds |-> UserRow]
    /\ logs = << >>
    /\ cache = [m \in Models |-> NoEntry]
    /\ now = 0
    /\ req = [r \in Req |-> NewRequest(r)]
    /\ reached = NoReads

NextStale ==
    \/ \E r \in Req :
           \/ Auth(r, [present |-> TRUE, bearer |-> TRUE, rest |-> TokenKey(1)])
           \/ AuthUser(r)
           \/ Begin(r, "chat", [json |-> TRUE, model |-> ModelA])
           \/ CacheGet(r)
           \/ Fetcher(r) /\ reached' = ReadOrderAfter(r)
           \/ CacheSet(r)
    \/ \E c \in ChannelIds :
           \E st \in {ChannelStatusDisabled, ChannelStatusEnabled} :
               ChannelUpdate(c, [status |-> st, updated_at |-> now])
    \/ Tick

SpecStale == InitStale /\ [][NextStale]_vars

(***************************************************************************)
(* Usage accounting: requests of both endpoints that overlap, answered 200 *)
(* with every usage the upstream can report, all ledger writes succeeding. *)
(***************************************************************************)
TokenCounts == 0..MaxTokens

UsageTexts ==
    {TextNoJson, TextNoUsage} \cup {TextUsage(p, c) : p \in TokenCounts, c \in TokenCounts}

UsageChunks ==
    {<< >>, <<UsageObject(FALSE, 0, 0)>>}
        \cup {<<UsageObject(TRUE, p, c)>> : p \in TokenCounts, c \in TokenCounts}

InitUsage ==
    /\ registry = RelayRegistry
    /\ sel = NoSelection
    /\ InitRelay

NextUsage ==
    \E r \in Req :
        \/ Auth(r, [present |-> TRUE, bearer |-> TRUE, rest |-> TokenKey(1)])
        \/ AuthUser(r)
        \/ \E endpoint \in {"chat", "embeddings"} :
               Begin(r, endpoint, [json |-> TRUE, model |-> ModelA])
        \/ CacheGet(r)
        \/ Fetcher(r) /\ UNCHANGED reached
        \/ CacheSet(r)
        \/ \E sse \in BOOLEAN :
               Dispatch(r, [kind |-> "response", status |-> 200, sse |-> sse,
                            hasBody |-> TRUE])
        \/ \E text \in UsageTexts : Buffering(r, text)
        \/ \E chunk \in UsageChunks : StreamRead(r, chunk)
        \/ StreamWrite(r, FALSE)
        \/ StreamEnd(r)
        \/ LogWrite(r, TRUE)
        \/ TokenDebit(r, TRUE) /\ UNCHANGED reached
        \/ UserDebit(r, TRUE)

SpecUsage == InitUsage /\ [][NextUsage]_vars

(***************************************************************************)
(* Streamed chat completions whose chunks carry any number of usage        *)
(* objects, all ledger writes succeeding.                                  *)
(***************************************************************************)
StreamChunks ==
    UsageChunks
        \cup {<<UsageObject(TRUE, p, c), UsageObject(TRUE, c, p)>> :
                 p \in TokenCounts, c \in TokenCounts}
        \cup {<<UsageObject(TRUE, MaxTokens, MaxTokens), UsageObject(FALSE, 0, 0)>>}

NextStream ==
    \E r \in Req :
        \/ Auth(r, [present |-> TRUE, bearer |-> TRUE, rest |-> TokenKey(1)])
        \/ AuthUser(r)
        \/ Begin(r, "chat", [json |-> TRUE, model |-> ModelA])
        \/ CacheGet(r)
        \/ Fetcher(r) /\ UNCHANGED reached
        \/ CacheSet(r)
        \/ Dispatch(r, [kind |-> "response", status |-> 200, sse |-> TRUE,
                        hasBody |-> TRUE])
        \/ \E chunk \in StreamChunks : StreamRead(r, chunk)
        \/ StreamWrite(r, FALSE)
        \/ StreamEnd(r)
        \/ LogWrite(r, TRUE)
        \/ TokenDebit(r, TRUE) /\ UNCHANGED reached
        \/ UserDebit(r, TRUE)

SpecStream == InitUsage /\ [][NextStream]_vars

(***************************************************************************)
(* The relay under a scheduler that runs every continuation that is ready: *)
(* each await of a handler settles, the caller may leave at any time.      *)
(***************************************************************************)
ProgressTexts == {TextRejects, TextNoJson, TextUsage(MaxTokens, MaxTokens)}

ProgressChunks == {<<UsageObject(TRUE, MaxTokens, MaxTokens)>>}

\* the steps of the handler of request r
HandlerStep(r) ==
    \/ \E header \in AuthHeaders({TokenKey(1)}) : Auth(r, header)
    \/ AuthUser(r)
    \/ \E endpoint \in {"chat", "embeddings"} :
           \E body \in Bodies({ModelA}) : Begin(r, endpoint, body)
    \/ CacheGet(r)
    \/ Fetcher(r) /\ UNCHANGED reached
    \/ CacheSet(r)
    \/ \E outcome \in {FetchRejects} \cup FetchResponses({200}) : Dispatch(r, outcome)
    \/ \E text \in ProgressTexts : Buffering(r, text)
    \/ \E chunk \in ProgressChunks : StreamRead(r, chunk)
    \/ \E rejects \in BOOLEAN : StreamWrite(r, rejects)
    \/ StreamEnd(r)
    \/ \E ok \in WriteOutcomes : LogWrite(r, ok)
    \/ \E ok \in WriteOutcomes : TokenDebit(r, ok) /\ UNCHANGED reached
    \/ \E ok \in WriteOutcomes : UserDebit(r, ok)

NextProgress ==
    \E r \in Req :
        \/ HandlerStep(r)
        \/ Disconnect(r)

SpecProgress ==
    /\ InitUsage
    /\ [][NextProgress]_vars
    /\ \A r \in Req : WF_vars(HandlerStep(r))

(***************************************************************************)
(* The protocol adapter: buildUpstreamHeaders, applyModelMapping and the   *)
(* headers proxyViaRelay hands to fetch(), as functions of their inputs.   *)
(***************************************************************************)
ChannelTypeOpenAI == 1
ChannelTypeAzure == 3
ChannelTypeAnthropic == 14
ChannelTypeGoogle == 24
ChannelTypeCustom == 99
\* a type none of the cases of the switch names
ChannelTypeOther == 0

ChannelTypes ==
    {ChannelTypeOpenAI, ChannelTypeAzure, ChannelTypeAnthropic, ChannelTypeGoogle,
     ChannelTypeCustom, ChannelTypeOther}

ChannelKey == "ck"
RelayKey == "rk"
CallerKeys == {"sk-1", "sk-2"}

\* a header map is a function from the names of its headers to their values
NoHeaders == << >>

\* the headers of the caller: with or without Authorization and Accept-Encoding
CallerHeaders ==
    {auth @@ enc :
        auth \in {NoHeaders} \cup {"Authorization" :> <<"Bearer", k>> : k \in CallerKeys},
        enc \in {NoHeaders, "Accept-Encoding" :> <<"gzip">>}}

\* an adapter that starts from the headers of the caller
buildUpstreamHeadersForwarding(channel, originalHeaders) ==
    LET credential ==
            CASE channel.type \in {ChannelTypeOpenAI, ChannelTypeCustom, ChannelTypeGoogle} ->
                     "Authorization" :> <<"Bearer", channel.key>>
              [] channel.type = ChannelTypeAzure -> "api-key" :> <<channel.key>>
              [] channel.type = ChannelTypeAnthropic ->
                     ("x-api-key" :> <<channel.key>>)
                         @@ ("anthropic-version" :> <<"2023-06-01">>)
              [] OTHER -> NoHeaders
    IN  credential @@ ("Content-Type" :> <<"application/json">>) @@ originalHeaders

buildUpstreamHeaders(channel, originalHeaders) ==
    LET credential ==
            CASE channel.type \in {ChannelTypeOpenAI, ChannelTypeCustom, ChannelTypeGoogle} ->
                     "Authorization" :> <<"Bearer", channel.key>>
              [] channel.type = ChannelTypeAzure -> "api-key" :> <<channel.key>>
              [] channel.type = ChannelTypeAnthropic ->
                     ("x-api-key" :> <<channel.key>>)
                         @@ ("anthropic-version" :> <<"2023-06-01">>)
              [] OTHER -> NoHeaders
        acceptEncoding ==
            IF "Accept-Encoding" \in DOMAIN originalHeaders
            THEN "Accept-Encoding" :> originalHeaders["Accept-Encoding"]
            ELSE NoHeaders
    IN  acceptEncoding @@ credential @@ ("Content-Type" :> <<"application/json">>)

\* the headers of the fetch() of proxyViaRelay: those of the adapter, or with the
\* three headers of the forwarding hop when RELAY_PROXY_URL is set
proxyViaRelayHeaders(relay, targetUrl, headers, requestId) ==
    IF ~relay
    THEN headers
    ELSE ("X-Proxy-Key" :> <<RelayKey>>) @@ ("X-Target-URL" :> <<targetUrl>>)
             @@ ("X-Request-Id" :> <<requestId>>) @@ headers

\* a model that has the name of a property of Object.prototype
ModelConstructor == <<"c", "o", "n", "s", "t", "r", "u", "c", "t", "o", "r">>

\* the property names every object inherits, and what a lookup of one gives
PrototypeKeys == {ModelConstructor}
\* values that are no string: the function Object and undefined
InheritedValue == <<"[Function: Object]">>
Undefined == <<"undefined">>

\* the text of channel.model_mapping: '', '{}', text JSON.parse rejects, the text
\* null, or another text of an object with its own entries
MappingEmpty == [kind |-> "empty"]
MappingBraces == [kind |-> "braces"]
MappingInvalid == [kind |-> "invalid"]
MappingNull == [kind |-> "null"]
MappingObject(entries) == [kind |-> "object", entries |-> entries]

MappingInputs ==
    {MappingEmpty, MappingBraces, MappingInvalid, MappingNull}
        \cup {MappingObject(e) :
                 e \in {NoHeaders, ModelA :> ModelB, ModelB :> ModelA, ModelA :> ModelA,
                        ModelA :> EmptyString, (ModelA :> ModelB) @@ (ModelB :> ModelA)}}

\* mapping[model]: the own entry, else the inherited property, else undefined
Lookup(entries, model) ==
    IF model \in DOMAIN entries THEN entries[model]
    ELSE IF model \in PrototypeKeys THEN InheritedValue
    ELSE Undefined

applyModelMapping(model, mappingJson) ==
    IF mappingJson.kind \in {"empty", "braces"}
    THEN model
    ELSE IF mappingJson.kind \in {"invalid", "null"}
    THEN model
    ELSE LET mapped == Lookup(mappingJson.entries, model)
         IN  IF mapped \in {Undefined, EmptyString} THEN model ELSE mapped

InitAdapter ==
    /\ registry = RelayRegistry
    /\ sel = NoSelection
    /\ InitRelay

\* the target of the call, and the address of the forwarding hop
TargetUrl == "url"
RelayProxyUrl == "relay/proxy"

\* a proxyViaRelay that falls back to the target after the call to the hop
proxyViaRelayWithFallback(relay, targetUrl, headers, requestId) ==
    IF ~relay
    THEN <<[url |-> targetUrl, headers |-> headers]>>
    ELSE <<[url |-> RelayProxyUrl,
            headers |-> proxyViaRelayHeaders(relay, targetUrl, headers, requestId)],
           [url |-> targetUrl, headers |-> headers]>>

\* the fetch() calls of proxyViaRelay, in order: one, to the target or to the hop
proxyViaRelay(relay, targetUrl, headers, requestId) ==
    <<[url |-> IF relay THEN RelayProxyUrl ELSE targetUrl,
       headers |-> proxyViaRelayHeaders(relay, targetUrl, headers, requestId)]>>

\* the body of a request: its model, and the rest of its fields
RequestBody(model) == [model |-> model, rest |-> "fields"]

\* a transformation that passes the body as it came
transformRequestBodyUnmapped(channel, body) == body

transformRequestBody(channel, body) ==
    [body EXCEPT !.model = applyModelMapping(body.model, channel.model_mapping)]

\* getTargetUrl, buildUpstreamHeaders and transformRequestBody for one chat
\* request, and the call proxyViaRelay makes with them
Adapt(channel, model, callerHeaders, relay) ==
    /\ ~sel.called
    /\ LET headers == buildUpstreamHeaders(channel, callerHeaders)
           sent    == transformRequestBody(channel, RequestBody(model))
       IN  sel' = [called |-> TRUE, adapted |-> TRUE, endpoint |-> "chat",
                   adapter |-> channel, model |-> model,
                   callerHeaders |-> callerHeaders, relay |-> relay,
                   body |-> RequestBody(model), sent |-> sent, mapped |-> sent.model,
                   headers |-> proxyViaRelayHeaders(relay, TargetUrl, headers, "req-1"),
                   calls |-> proxyViaRelay(relay, TargetUrl, headers, "req-1")]
    /\ UNCHANGED <<registry, relayVars>>

\* the same for one embeddings request, whose body goes to JSON.stringify as it came
AdaptEmbeddings(channel, model, callerHeaders, relay) ==
    /\ ~sel.called
    /\ LET headers == buildUpstreamHeaders(channel, callerHeaders)
           sent    == RequestBody(model)
       IN  sel' = [called |-> TRUE, adapted |-> TRUE, endpoint |-> "embeddings",
                   adapter |-> channel, model |-> model,
                   callerHeaders |-> callerHeaders, relay |-> relay,
                   body |-> RequestBody(model), sent |-> sent, mapped |-> sent.model,
                   headers |-> proxyViaRelayHeaders(relay, TargetUrl, headers, "req-1"),
                   calls |-> proxyViaRelay(relay, TargetUrl, headers, "req-1")]
    /\ UNCHANGED <<registry, relayVars>>

NextAdapter ==
    \E type \in ChannelTypes, mapping \in MappingInputs,
       model \in Models \cup {ModelConstructor}, callerHeaders \in CallerHeaders,
       relay \in BOOLEAN :
        LET channel == [type |-> type, key |-> ChannelKey, model_mapping |-> mapping]
        IN  \/ Adapt(channel, model, callerHeaders, relay)
            \/ AdaptEmbeddings(channel, model, callerHeaders, relay)

SpecAdapter == InitAdapter /\ [][NextAdapter]_vars

(***************************************************************************)
(* Channel selection on its own: every registry the administration can     *)
(* leave behind, every model, every draw.                                  *)
(***************************************************************************)
InitSelect ==
    /\ registry \in RegistryInputs
    /\ sel = NoSelection
    /\ InitRelay

\* one channel lookup followed by one weighted pick
Select(model) ==
    \E channels \in findEnabledForModel(registry, model) :
        \E random \in RandomDraws(SumWeights(channels)) :
            /\ sel' = [called |-> TRUE, model |-> model, channels |-> channels,
                       random |-> random, channel |-> selectChannel(channels, random)]
            /\ UNCHANGED <<registry, relayVars>>

NextSelect == \E model \in Models : Select(model)

SpecSelect == InitSelect /\ [][NextSelect]_vars

(***************************************************************************)
(* Properties of the relay.                                                *)
(***************************************************************************)
\* the Usage Records of request r
LogsOf(r) == {i \in 1..Len(logs) : logs[i].request_id = r}

Writes(r) == {req[r].log, req[r].tokenDebit, req[r].userDebit}

\* the handler has answered and no write of the request is still to run
Finished(r) == req[r].pc = "done" /\ "issued" \notin Writes(r)

RECURSIVE Billed(_)
Billed(S) ==
    IF S = {} THEN 0
    ELSE LET q == CHOOSE x \in S : TRUE IN req[q].quota + Billed(S \ {q})

\* C1 (as claimed): a request whose outbound call was issued and answered by the
\* upstream, with a 2xx or not, streamed or buffered, has once it is finished
\* exactly one Usage Record, one debit of its token and one debit of its account.
C1_ExactlyOneLedgerWrite ==
    \A r \in Req :
        (req[r].outbound > 0 /\ req[r].upstream # 0 /\ Finished(r)) =>
            /\ Cardinality(LogsOf(r)) = 1
            /\ req[r].tokenDebit = "ok"
            /\ req[r].userDebit = "ok"

\* C2 (as claimed): when the ledger is written all three writes are attempted
\* even if one fails, and a failed write is never surfaced: the caller still
\* gets the status of the upstream, on the buffered and on the streaming path.
C2_LedgerFailureNeverSurfaced ==
    \A r \in Req :
        /\ Writes(r) # {"none"} => "none" \notin Writes(r)
        /\ ("failed" \in Writes(r) /\ req[r].pc = "done") =>
               /\ req[r].code = "none"
               /\ req[r].mode = "buffered" => req[r].status = req[r].upstream

\* the answers given before the dispatch; a body that is no JSON is answered
\* invalid_json by the chat handler and makes the embeddings handler throw
RejectionCodes ==
    {"invalid_json", "internal_error", "missing_model", "model_not_allowed",
     "no_channel_available"}

\* C3: a request rejected before dispatch (body that is no JSON, missing model,
\* model not allowed, no enabled channel for the model) makes no outbound call,
\* has no Usage Record and no debit, so that the counters of the token and of the
\* account are those of the requests that were debited; a request whose lookup
\* finds no channel is answered 503 no_channel_available.
C3_RejectedBeforeDispatch ==
    /\ \A r \in Req :
           req[r].code \in RejectionCodes =>
               /\ req[r].pc = "done"
               /\ req[r].status \in {400, 403, 500, 503}
               /\ req[r].outbound = 0
               /\ LogsOf(r) = {}
               /\ Writes(r) = {"none"}
    /\ \A r \in Req :
           (/\ req[r].cacheReads + req[r].registryReads > 0
            /\ req[r].pc \notin {"fetcher", "cacheSet"}
            /\ req[r].channels = << >>) =>
               /\ req[r].pc = "done"
               /\ req[r].status = 503
               /\ req[r].code = "no_channel_available"
    /\ \A t \in TokenIds :
           LET debited == {r \in Req : req[r].tokenId = t /\ req[r].tokenDebit = "ok"}
           IN  /\ tokens[t].request_count = Cardinality(debited)
               /\ tokens[t].used_quota = Billed(debited)
    /\ \A u \in UserIds :
           LET debited == {r \in Req : req[r].userId = u /\ req[r].userDebit = "ok"}
           IN  /\ users[u].request_count = Cardinality(debited)
               /\ users[u].used_quota = Billed(debited)
    /\ Len(logs) = Cardinality({r \in Req : req[r].log = "ok"})

\* a request answered no_channel_available, one rejected for its body, and one
\* that was billed for tokens
C3_Witness ==
    \E r, q \in Req :
        /\ req[r].code = "no_channel_available"
        /\ req[q].tokenDebit = "ok"
        /\ req[q].userDebit = "ok"
        /\ req[q].quota > 0
        /\ tokens[req[q].tokenId].used_quota = req[q].quota

\* the allow-list is not blank and names neither x nor "*"
NotListed(models, x) ==
    /\ Trim(models) # EmptyString
    /\ \A i \in 1..Len(Split(models)) :
           Trim(Split(models)[i]) # x /\ Trim(Split(models)[i]) # Star

\* C4: a request whose model is absent from the allow-list of its token is
\* answered 403 model_not_allowed, and neither the selection cache nor the
\* registry has been read for it.
C4_NotAllowedBeforeLookup ==
    \A r \in Req :
        (req[r].model # EmptyString /\ NotListed(req[r].tokenModels, req[r].model)) =>
            /\ req[r].pc = "done"
            /\ req[r].status = 403
            /\ req[r].code = "model_not_allowed"
            /\ req[r].cacheReads = 0
            /\ req[r].registryReads = 0
            /\ req[r].outbound = 0

\* a request refused for its model while the cache holds the list another request
\* looked up
C4_Witness ==
    \E r, q \in Req :
        /\ req[r].code = "model_not_allowed"
        /\ req[r].model = ModelB
        /\ req[q].registryReads > 0
        /\ cache[ModelA].present

\* C11 (as claimed): when the upstream answers with a non-2xx status and no
\* ledger write fails, the caller receives that status, on the buffered path and
\* for an event stream, and the Usage Record carries that status code.
C11_UpstreamStatusRelayed ==
    \A r \in Req :
        (/\ req[r].upstream # 0
         /\ req[r].upstream \notin 200..299
         /\ "failed" \notin Writes(r)
         /\ req[r].mode = "buffered" => req[r].log # "none") =>
            /\ req[r].status # 0 => req[r].status = req[r].upstream
            /\ \A i \in LogsOf(r) : logs[i].status_code = req[r].upstream

\* C12: a request whose outbound fetch rejects is answered 502 upstream_error and
\* neither its token nor its account is debited for it.
C12_UnreachableAnswers502NoDebit ==
    \A r \in Req :
        (req[r].outbound > 0 /\ req[r].upstream = 0) =>
            /\ req[r].pc = "done"
            /\ req[r].status = 502
            /\ req[r].code = "upstream_error"
            /\ req[r].tokenDebit = "none"
            /\ req[r].userDebit = "none"

\* a request whose fetch was rejected, next to one that was billed for tokens
C12_Witness ==
    \E r, q \in Req :
        /\ req[r].outbound > 0
        /\ req[r].upstream = 0
        /\ req[r].status = 502
        /\ req[q].tokenDebit = "ok"
        /\ req[q].userDebit = "ok"
        /\ req[q].quota > 0
        /\ tokens[req[q].tokenId].request_count = 1

IsPrefix(s, t) == Len(s) <= Len(t) /\ \A i \in 1..Len(s) : s[i] = t[i]

C14_DisconnectStopsLoop ==
    \A r \in Req :
        /\ req[r].dropped >= 1 =>
               /\ req[r].pc \notin {"streaming", "writing"}
               /\ req[r].dropped = 1
               /\ req[r].log # "none"
        /\ Cardinality(LogsOf(r)) <= 1

\* C25 (as claimed): on the buffered path a body that is no JSON, or has no usage
\* object, gives promptTokens 0, completionTokens 0 and quota 0, and the request
\* does not fail: once it is finished the caller has the status and the body of
\* the upstream, and the ledger was written once.
C25_UnparsableBodyBillsNothing ==
    \A r \in Req :
        (req[r].mode = "buffered" /\ req[r].log # "none" /\ ~req[r].usage.present) =>
            /\ req[r].promptTokens = 0
            /\ req[r].completionTokens = 0
            /\ req[r].quota = 0
            /\ Finished(r) =>
                   /\ req[r].status = req[r].upstream
                   /\ req[r].code = "none"
                   /\ Cardinality(LogsOf(r)) = 1
                   /\ req[r].tokenDebit = "ok"
                   /\ req[r].userDebit = "ok"

(***************************************************************************)
(* Properties of admission and of the quota.                               *)
(***************************************************************************)
\* C5: once a debit has taken used_quota of a token with quota > 0 to its quota,
\* used_quota exceeds the quota by no more than the billed cost of the requests
\* that were in flight at that moment, and every request admitted on the token
\* was admitted before that moment.
C5_BoundedOverdraft ==
    \A t \in TokenIds :
        /\ (tokens[t].quota > 0 /\ tokens[t].used_quota >= tokens[t].quota)
               => reached[t].happened
        /\ reached[t].happened =>
               /\ tokens[t].used_quota - tokens[t].quota <= reached[t].billed
               /\ AdmittedOn(t) \subseteq reached[t].admitted

\* C6: a request is admitted only if at that instant its token is enabled, not
\* past its expiry, and has quota left (quota 0 is no limit, otherwise
\* used_quota < quota).
C6_AdmittedOnlyIfValid ==
    [][\A r \in Req :
          (~req[r].admitted /\ req'[r].admitted) =>
              LET token == tokens[req'[r].tokenId]
              IN  /\ token.status = TokenStatusEnabled
                  /\ token.expired_at = NoExpiry \/ token.expired_at >= now
                  /\ token.quota = 0 \/ token.used_quota < token.quota]_vars

\* a request admitted on the token, and a later one refused once the quota is used
C6_Witness ==
    \E r, q \in Req :
        /\ req[r].admitted
        /\ req[r].tokenDebit = "ok"
        /\ ~req[q].admitted
        /\ req[q].code = "invalid_api_key"
        /\ tokens[req[r].tokenId].used_quota >= tokens[req[r].tokenId].quota

(***************************************************************************)
(* Properties of the usage accounting.                                     *)
(***************************************************************************)
\* the counts the scan leaves after these chunks: those of the last chunk whose
\* first usage object parses, 0 and 0 when there is none
RECURSIVE ScannedCounts(_)
ScannedCounts(chunks) ==
    IF chunks = << >>
    THEN <<0, 0>>
    ELSE LET last == chunks[Len(chunks)]
         IN  IF Len(last) > 0 /\ last[1].ok
             THEN <<last[1].prompt, last[1].completion>>
             ELSE ScannedCounts(SubSeq(chunks, 1, Len(chunks) - 1))

\* the counts of the usage object of a buffered body, 0 and 0 when it has none
BodyCounts(usage) ==
    IF usage.present THEN <<usage.prompt, usage.completion>> ELSE <<0, 0>>

\* C15: for a chat completion, buffered or streamed, the counts of the ledger are
\* those of the usage object of the upstream, the quota is promptTokens +
\* completionTokens * 3 (25 for 10 and 5), and the Usage Record carries the
\* counts and that quota, which is the amount of the two debits.
C15_ChatQuotaFormula ==
    /\ ChatQuota(10, 5) = 25
    /\ \A r \in Req :
           (req[r].endpoint = "chat" /\ req[r].log # "none") =>
               /\ <<req[r].promptTokens, req[r].completionTokens>> =
                      (IF req[r].mode = "buffered"
                       THEN BodyCounts(req[r].usage)
                       ELSE ScannedCounts(SubSeq(req[r].received, 1, req[r].scanned)))
               /\ req[r].quota = req[r].promptTokens + req[r].completionTokens * 3
               /\ \A i \in LogsOf(r) :
                      /\ logs[i].prompt_tokens = req[r].promptTokens
                      /\ logs[i].completion_tokens = req[r].completionTokens
                      /\ logs[i].quota = req[r].quota
               /\ (req[r].tokenDebit = "ok" /\ tokens[req[r].tokenId].request_count = 1)
                      => tokens[req[r].tokenId].used_quota = req[r].quota
               /\ (req[r].userDebit = "ok" /\ users[req[r].userId].request_count = 1)
                      => users[req[r].userId].used_quota = req[r].quota

\* a streamed completion billed for completion tokens only, next to a buffered
\* one billed for both
C15_Witness ==
    \E r, q \in Req :
        /\ req[r].endpoint = "chat" /\ req[r].mode = "streamed" /\ Finished(r)
        /\ req[r].promptTokens = 0
        /\ req[r].completionTokens = MaxTokens
        /\ req[r].quota = 3 * MaxTokens
        /\ req[q].endpoint = "chat" /\ req[q].mode = "buffered" /\ Finished(q)
        /\ req[q].promptTokens = MaxTokens
        /\ req[q].completionTokens = MaxTokens
        /\ tokens[req[q].tokenId].used_quota = 7 * MaxTokens

\* C16: for an embeddings request the Usage Record has completionTokens 0 and
\* quota = promptTokens, the prompt count of the usage object of the upstream, and
\* that is the amount of the two debits.
C16_EmbeddingsBillPromptTokens ==
    \A r \in Req :
        (req[r].endpoint = "embeddings" /\ req[r].log # "none") =>
            /\ req[r].promptTokens = BodyCounts(req[r].usage)[1]
            /\ req[r].completionTokens = 0
            /\ req[r].quota = req[r].promptTokens
            /\ \A i \in LogsOf(r) :
                   /\ logs[i].prompt_tokens = req[r].promptTokens
                   /\ logs[i].completion_tokens = 0
                   /\ logs[i].quota = req[r].promptTokens
            /\ (req[r].tokenDebit = "ok" /\ tokens[req[r].tokenId].request_count = 1)
                   => tokens[req[r].tokenId].used_quota = req[r].promptTokens
            /\ (req[r].userDebit = "ok" /\ users[req[r].userId].request_count = 1)
                   => users[req[r].userId].used_quota = req[r].promptTokens

\* an embeddings request whose upstream reported completion tokens too
C16_Witness ==
    \E r \in Req :
        /\ req[r].endpoint = "embeddings"
        /\ Finished(r)
        /\ req[r].usage.present
        /\ req[r].usage.completion = MaxTokens
        /\ req[r].usage.prompt = MaxTokens
        /\ LogsOf(r) # {}
        /\ tokens[req[r].tokenId].request_count = 1
        /\ users[req[r].userId].used_quota = MaxTokens

\* C19: debits are additive and none is lost: in every interleaving used_quota
\* of a token is the sum of the quotas of the requests debited on it and its
\* request counter is their number; the same holds for the account.
C19_DebitsAdditive ==
    /\ \A t \in TokenIds :
           LET debited == {r \in Req : req[r].tokenId = t /\ req[r].tokenDebit = "ok"}
           IN  /\ tokens[t].used_quota = Billed(debited)
               /\ tokens[t].request_count = Cardinality(debited)
    /\ \A u \in UserIds :
           LET debited == {r \in Req : req[r].userId = u /\ req[r].userDebit = "ok"}
           IN  /\ users[u].used_quota = Billed(debited)
               /\ users[u].request_count = Cardinality(debited)

\* every request has finished its ledger write, all of them overlapped, with
\* different quotas
C19_Witness ==
    /\ \A r \in Req : Finished(r) /\ Writes(r) = {"ok"}
    /\ \E r, q \in Req : req[r].quota > req[q].quota /\ req[q].quota > 0
    /\ \A i \in 1..Len(logs) : logs[i].request_id = Len(logs) + 1 - i
    /\ tokens[1].request_count = NumReq

\* the usage objects of these chunks, in the order of the stream
RECURSIVE UsageObjectsOf(_)
UsageObjectsOf(chunks) ==
    IF chunks = << >> THEN << >> ELSE Head(chunks) \o UsageObjectsOf(Tail(chunks))

\* the counts of the last usage object that parses, 0 and 0 when there is none
LastUsageCounts(objects) ==
    LET parsed == SelectSeq(objects, LAMBDA u : u.ok)
    IN  IF parsed = << >>
        THEN <<0, 0>>
        ELSE <<parsed[Len(parsed)].prompt, parsed[Len(parsed)].completion>>

\* C24 (as claimed): the counts a streamed completion is billed for are those of
\* the last usage object of the chunks the loop has scanned, whether the usage
\* objects came in different chunks or in one.
C24_LastUsageObjectWins ==
    \A r \in Req :
        (req[r].mode = "streamed" /\ req[r].log # "none") =>
            <<req[r].promptTokens, req[r].completionTokens>> =
                LastUsageCounts(UsageObjectsOf(SubSeq(req[r].received, 1, req[r].scanned)))

\* C20 (as claimed): used_quota of a token never decreases, it changes only in
\* the step that applies a debit of a request on that token, and no debit that is
\* applied has a negative amount; no update of the token by the administrator
\* changes it.
C20_UsedQuotaMonotone ==
    [][/\ \A t \in TokenIds :
              /\ tokens'[t].used_quota >= tokens[t].used_quota
              /\ tokens'[t].used_quota # tokens[t].used_quota =>
                     \E r \in Req : /\ req[r].tokenId = t
                                    /\ req[r].tokenDebit = "issued"
                                    /\ req'[r].tokenDebit = "ok"
       /\ \A r \in Req :
              (req[r].tokenDebit = "issued" /\ req'[r].tokenDebit = "ok")
                  => req[r].quota >= 0]_vars

(***************************************************************************)
(* Properties of the protocol adapter.                                     *)
(***************************************************************************)
Adapted == sel.called /\ "adapted" \in DOMAIN sel

\* C17 (as claimed): when the mapping table of the channel has no entry for the
\* model (also when it is empty, {} or no valid JSON) the model sent upstream is
\* the requested model, and mapping it again leaves it as it is.
C17_UnmappedModelUnchanged ==
    (/\ Adapted
     /\ \/ sel.adapter.model_mapping.kind # "object"
        \/ sel.model \notin DOMAIN sel.adapter.model_mapping.entries) =>
        /\ sel.mapped = sel.model
        /\ applyModelMapping(sel.mapped, sel.adapter.model_mapping) = sel.mapped

\* the header names that carry a credential, and the values made of the key
CredentialNames == {"Authorization", "api-key", "x-api-key", "X-Proxy-Key"}

\* C18: no header sent upstream or to the forwarding hop has the value of the
\* Authorization header of the caller; a credential header carries the key of the
\* channel (the key of the hop for X-Proxy-Key); the headers sent are the same
\* whatever the Authorization header of the caller.
C18_CallerAuthorizationNotForwarded ==
    Adapted =>
        /\ \A h \in DOMAIN sel.headers :
               "Authorization" \in DOMAIN sel.callerHeaders
                   => sel.headers[h] # sel.callerHeaders["Authorization"]
        /\ \A h \in DOMAIN sel.headers \cap CredentialNames :
               sel.headers[h] \in {<<"Bearer", sel.adapter.key>>, <<sel.adapter.key>>,
                                   <<RelayKey>>}
        /\ \A other \in CallerHeaders :
               (\A h \in (DOMAIN other \cup DOMAIN sel.callerHeaders) \ {"Authorization"} :
                    /\ h \in DOMAIN other
                    /\ h \in DOMAIN sel.callerHeaders
                    /\ other[h] = sel.callerHeaders[h]) =>
                   sel.headers =
                       proxyViaRelayHeaders(sel.relay, TargetUrl,
                           buildUpstreamHeaders(sel.adapter, other), "req-1")

\* an Azure channel, which sets no Authorization header of its own, behind the
\* forwarding hop, for a caller that sent its key and an Accept-Encoding
C18_Witness ==
    /\ Adapted
    /\ sel.adapter.type = ChannelTypeAzure
    /\ sel.relay
    /\ "Authorization" \in DOMAIN sel.callerHeaders
    /\ "Accept-Encoding" \in DOMAIN sel.headers
    /\ "Authorization" \notin DOMAIN sel.headers
    /\ sel.headers["api-key"] = <<ChannelKey>>

\* C26 (as claimed): for a chat completion as for an embeddings request, when the
\* mapping table of the channel has a non-empty entry for the requested model the
\* model of the body sent upstream is that entry, and the rest of the body is
\* sent as it came.
C26_MappedModelSentUpstream ==
    (/\ Adapted
     /\ sel.adapter.model_mapping.kind = "object"
     /\ sel.model \in DOMAIN sel.adapter.model_mapping.entries
     /\ sel.adapter.model_mapping.entries[sel.model] # EmptyString) =>
        /\ sel.sent.model = sel.adapter.model_mapping.entries[sel.model]
        /\ sel.sent.rest = sel.body.rest

\* C27: the request makes exactly one outbound call; with a forwarding hop it goes
\* to the hop and not to the target, and carries the target URL, the secret of the
\* hop and the request id as headers; without one it goes to the target.
C27_OneOutboundCall ==
    Adapted =>
        /\ Len(sel.calls) = 1
        /\ sel.relay =>
               /\ sel.calls[1].url = RelayProxyUrl
               /\ sel.calls[1].url # TargetUrl
               /\ sel.calls[1].headers["X-Target-URL"] = <<TargetUrl>>
               /\ sel.calls[1].headers["X-Proxy-Key"] = <<RelayKey>>
               /\ sel.calls[1].headers["X-Request-Id"] = <<"req-1">>
        /\ ~sel.relay =>
               /\ sel.calls[1].url = TargetUrl
               /\ sel.calls[1].headers = buildUpstreamHeaders(sel.adapter, sel.callerHeaders)

\* a call through the forwarding hop with the credential of an OpenAI channel
C27_Witness ==
    /\ Adapted
    /\ sel.relay
    /\ sel.calls[1].url = RelayProxyUrl
    /\ sel.adapter.type = ChannelTypeOpenAI
    /\ sel.calls[1].headers["Authorization"] = <<"Bearer", ChannelKey>>

\* the state of a request in the words of the request state machine
Phase(rec) ==
    IF rec.pc \in {"new", "expire", "user", "handler"} THEN "Received"
    ELSE IF rec.pc \in {"cacheGet", "fetcher", "cacheSet"} THEN "ModelAllowed"
    ELSE IF rec.pc = "dispatch" THEN "ChannelSelected"
    ELSE IF rec.pc = "buffering" THEN "Buffering"
    ELSE IF rec.pc \in {"streaming", "writing"} THEN "Streaming"
    ELSE IF rec.pc = "ledger" THEN "UsageRecorded"
    ELSE IF rec.code = "none" THEN "Done"
    ELSE "Error"

\* the moves of the state machine; Dispatched lies within the step that issues
\* the outbound call and branches on its result
PhaseMoves ==
    {<<"Received", "ModelAllowed">>, <<"ModelAllowed", "ChannelSelected">>,
     <<"ChannelSelected", "Buffering">>, <<"ChannelSelected", "Streaming">>,
     <<"Buffering", "UsageRecorded">>, <<"Streaming", "UsageRecorded">>,
     <<"UsageRecorded", "Done">>}
        \cup {<<p, "Error">> : p \in {"Received", "ModelAllowed", "ChannelSelected",
                                      "Buffering", "UsageRecorded"}}

Terminal(rec) == Phase(rec) \in {"Done", "Error"}

\* C28: a request moves only along Received, ModelAllowed, ChannelSelected,
\* Dispatched, Buffering or Streaming, UsageRecorded, Done, or into a terminal
\* error state; it is in UsageRecorded only after its outbound call; what it
\* answered stays as it is once it is terminal; and every request eventually is
\* terminal, when every await of its handler settles.
C28_RequestStateMachine ==
    /\ [][\A r \in Req :
             /\ Phase(req[r]) # Phase(req'[r]) =>
                    <<Phase(req[r]), Phase(req'[r])>> \in PhaseMoves
             /\ (Phase(req[r]) = "ChannelSelected"
                    /\ Phase(req'[r]) \in {"Buffering", "Streaming"}) =>
                    (req[r].outbound = 0 /\ req'[r].outbound = 1)
             /\ Terminal(req[r]) =>
                    /\ Phase(req'[r]) = Phase(req[r])
                    /\ req'[r].status = req[r].status
                    /\ req'[r].code = req[r].code]_vars
    /\ [](\A r \in Req : Phase(req[r]) = "UsageRecorded" => req[r].outbound = 1)
    /\ \A r \in Req : <>Terminal(req[r])

\* one request is Done after a streamed answer, the other ends in an error after
\* its outbound call, with a ledger write that failed
C28_Witness ==
    \E r, q \in Req :
        /\ Phase(req[r]) = "Done" /\ req[r].mode = "streamed"
        /\ {req[r].log, req[r].tokenDebit, req[r].userDebit} = {"ok"}
        /\ Phase(req[q]) = "Error" /\ req[q].outbound = 1
        /\ "failed" \in {req[q].log, req[q].tokenDebit, req[q].userDebit}

\* C29 (as claimed): a buffered request whose ledger writes were issued is answered
\* only when none of the three is still in progress, and while a streamed request
\* reads or forwards chunks none of its ledger writes has been issued.
C29_LedgerOrderedAgainstDelivery ==
    \A r \in Req :
        /\ (req[r].mode = "buffered" /\ req[r].pc = "done" /\ req[r].log # "none") =>
               "issued" \notin Writes(r)
        /\ (req[r].mode = "streamed" /\ req[r].pc \in {"streaming", "writing"}) =>
               Writes(r) = {"none"}
        /\ (req[r].mode = "streamed" /\ Writes(r) # {"none"}) =>
               /\ req[r].pc \in {"ledger", "done"}
               /\ Len(req[r].written) + req[r].dropped = Len(req[r].received)

\* the growth of the used_quota of the tokens of account u
RECURSIVE TokenGrowth(_, _)
TokenGrowth(u, T) ==
    IF T = {} THEN 0
    ELSE LET t == CHOOSE x \in T : TRUE
         IN  (IF tokens[t].user_id = u THEN tokens[t].used_quota ELSE 0)
                 + TokenGrowth(u, T \ {t})

\* the quota of the Usage Records of account u among the first n
RECURSIVE LoggedQuota(_, _)
LoggedQuota(u, n) ==
    IF n = 0 THEN 0
    ELSE (IF logs[n].user_id = u THEN logs[n].quota ELSE 0) + LoggedQuota(u, n - 1)

Distance(a, b) == IF a >= b THEN a - b ELSE b - a

MidWrite == {r \in Req : "issued" \in Writes(r)}

\* C30: the three writes of a request carry one amount; with no ledger write in
\* progress and none failed, the growth of an account's used_quota, the growth of
\* its tokens' used_quota and the quota of its Usage Records are equal; while the
\* writes of one request are in progress they differ by at most its quota.
C30_AccountingInLockstep ==
    \A u \in UserIds :
        LET account == users[u].used_quota
            byToken == TokenGrowth(u, DOMAIN tokens)
            byLog   == LoggedQuota(u, Len(logs))
        IN  /\ \A i \in 1..Len(logs) :
                   \A r \in Req : logs[i].request_id = r => logs[i].quota = req[r].quota
            /\ FailedWrites = {} =>
                   /\ MidWrite = {} => (account = byToken /\ account = byLog)
                   /\ \A r \in Req : MidWrite = {r} =>
                          /\ Distance(account, byToken) <= req[r].quota
                          /\ Distance(account, byLog) <= req[r].quota
                          /\ Distance(byToken, byLog) <= req[r].quota

\* two requests of different quota have been written in full, and nothing failed
C30_Witness ==
    /\ FailedWrites = {}
    /\ MidWrite = {}
    /\ Len(logs) = NumReq
    /\ \E r, q \in Req : req[r].quota > req[q].quota /\ req[q].quota > 0
    /\ users[1].used_quota = LoggedQuota(1, Len(logs))
    /\ users[1].used_quota > 0

(***************************************************************************)
(* Properties of channel selection.                                        *)
(***************************************************************************)
Selected == sel.called /\ sel.channel # NullChannel

\* total weight of the first i channels of the list
CumWeight(channels, i) == SumWeights(SubSeq(channels, 1, i))

PositionOf(channels, ch) == CHOOSE i \in 1..Len(channels) : channels[i] = ch

\* C7 (as claimed): a channel of weight 0 is never the one selected while the
\* candidate list holds a channel of positive weight, whatever the order of the
\* list and whatever the draw, the draw 0 included.
C7_ZeroWeightNeverSelected ==
    (Selected /\ sel.channel.weight = 0)
        => \A i \in 1..Len(sel.channels) : sel.channels[i].weight = 0

\* C21: selectChannel on a non-empty list returns a channel of that list, never
\* null; when every weight is zero it returns the first channel of the list; so
\* the handler never answers channel_selection_failed for a non-empty list.
C21_SelectionNeverFails ==
    (sel.called /\ Len(sel.channels) > 0) =>
        /\ sel.channel # NullChannel
        /\ \E i \in 1..Len(sel.channels) : sel.channel = sel.channels[i]
        /\ (\A i \in 1..Len(sel.channels) : sel.channels[i].weight = 0)
               => sel.channel = sel.channels[1]
        /\ AfterLookup(NewRequest(1), sel.channels, sel.random).code
               # "channel_selection_failed"

\* two channels, neither of any weight: the first of the list is selected
C21_Witness ==
    /\ sel.called
    /\ Len(sel.channels) >= 2
    /\ \A i \in 1..Len(sel.channels) : sel.channels[i].weight = 0
    /\ sel.channel = sel.channels[1]

\* the draws that fall strictly inside the cumulative-weight interval of channel j
InteriorDraws(channels, j) ==
    {d \in RandomDraws(SumWeights(channels)) :
        /\ CumWeight(channels, j - 1) * DrawScale < d
        /\ d < CumWeight(channels, j) * DrawScale}

\* the draws that are no whole number: DrawScale - 1 of them, evenly spaced, in
\* every unit of weight, none of them on the border of two intervals
FractionalDraws(totalWeight) ==
    {d \in RandomDraws(totalWeight) : d % DrawScale # 0}

\* C8: with total weight W > 0 the channel selected is one whose cumulative-weight
\* interval contains the draw, it is the channel of the interval the draw lies
\* inside, and evenly spaced draws select each channel in proportion to its weight
\* (weight * (DrawScale - 1) of the W * (DrawScale - 1) fractional draws).
C8_SelectionFollowsWeights ==
    (sel.called /\ SumWeights(sel.channels) > 0) =>
        LET channels == sel.channels
            i == PositionOf(channels, sel.channel)
        IN  /\ sel.channel # NullChannel
            /\ CumWeight(channels, i - 1) * DrawScale <= sel.random
            /\ sel.random <= CumWeight(channels, i) * DrawScale
            /\ \A j \in 1..Len(channels) :
                   sel.random \in InteriorDraws(channels, j) => sel.channel = channels[j]
            /\ \A j \in 1..Len(channels) :
                   Cardinality({d \in FractionalDraws(SumWeights(channels)) :
                                   selectChannel(channels, d) = channels[j]})
                       = channels[j].weight * (DrawScale - 1)

\* a draw inside the interval of the second of two channels of different weight
C8_Witness ==
    /\ sel.called
    /\ Len(sel.channels) >= 2
    /\ sel.channels[1].weight > sel.channels[2].weight
    /\ sel.channels[2].weight > 0
    /\ sel.random \in InteriorDraws(sel.channels, 2)
    /\ sel.channel = sel.channels[2]

\* the allow-list names x: a piece of the comma-separated list is x, blanks aside
AllowListNames(models, x) ==
    \E i \in 1..Len(Split(models)) : Trim(Split(models)[i]) = x

ListedIds(channels) == {channels[i].id : i \in 1..Len(channels)}

\* C9 (as claimed): the eligible set resolved for a model is exactly the set of
\* enabled channels whose allow-list contains the model or "*".
C9_EligibleIsEnabledAndNamed ==
    sel.called =>
        ListedIds(sel.channels) =
            {c \in DOMAIN registry :
                /\ registry[c].status = ChannelStatusEnabled
                /\ \/ AllowListNames(registry[c].models, sel.model)
                   \/ AllowListNames(registry[c].models, Star)}

\* C9 (amended): the eligible set a registry read resolves for a model is exactly
\* the set of enabled channels whose allow-list is blank or contains the model or
\* "*", each listed once.
C9_EligibleIsEnabledAndBlankOrNamed ==
    sel.called =>
        /\ ListedIds(sel.channels) =
               {c \in DOMAIN registry :
                   /\ registry[c].status = ChannelStatusEnabled
                   /\ \/ Trim(registry[c].models) = EmptyString
                      \/ AllowListNames(registry[c].models, sel.model)
                      \/ AllowListNames(registry[c].models, Star)}
        /\ Len(sel.channels) = Cardinality(ListedIds(sel.channels))

\* a lookup that keeps a channel with a blank allow-list and leaves out a channel
\* in testing
C9_Witness ==
    /\ sel.called
    /\ \E i \in 1..Len(sel.channels) : sel.channels[i].models = EmptyString
    /\ \E c \in DOMAIN registry :
           /\ registry[c].status = ChannelStatusTesting
           /\ c \notin ListedIds(sel.channels)

(***************************************************************************)
(* Properties of the selection cache.                                      *)
(***************************************************************************)
\* C10 (as claimed): after any requests and registry writes, no channel of a list
\* the cache serves is disabled.
C10_CacheNeverHoldsDisabled ==
    \A m \in Models :
        LET entry == cacheGet(cache, m, now)
        IN  entry.present =>
                \A i \in 1..Len(entry.value) :
                    /\ entry.value[i].id \in DOMAIN registry
                    /\ registry[entry.value[i].id].status = ChannelStatusEnabled

\* C10 (amended): every channel record of a cached list has the status enabled
\* and serves the model of the entry, as the registry read that produced the list
\* found it; the entry is served for less than CacheTtl seconds.
C10_CacheHoldsEnabledRecords ==
    \A m \in Models :
        /\ cache[m].present =>
               \A i \in 1..Len(cache[m].value) :
                   /\ cache[m].value[i].status = ChannelStatusEnabled
                   /\ ServesModel(cache[m].value[i], m)
        /\ cacheGet(cache, m, now).present => now - cache[m].at < CacheTtl

\* an entry still served that lists a channel disabled since
C10_Witness ==
    \E m \in Models :
        LET entry == cacheGet(cache, m, now)
        IN  /\ entry.present
            /\ \E i \in 1..Len(entry.value) :
                   /\ entry.value[i].id \in DOMAIN registry
                   /\ registry[entry.value[i].id].status = ChannelStatusDisabled

\* C22 (as claimed): an entry is served for less than CacheTtl seconds after it
\* was written; a chat request that finds no entry, or an expired one, reads the
\* registry; no chat request gets from the cache a channel that has been disabled
\* in the registry for longer than CacheTtl, and none is refused
\* no_channel_available from the cache while a channel that serves its model has
\* been enabled for longer than CacheTtl.
C22_StalenessBoundedByTtl ==
    [][\A r \in Req :
          /\ (req[r].pc = "cacheGet" /\ req'[r].pc # "cacheGet") =>
                 IF cacheGet(cache, req[r].model, now).present
                 THEN now - cache[req[r].model].at < CacheTtl
                 ELSE req'[r].pc = "fetcher"
          /\ (req[r].pc = "cacheGet" /\ req'[r].pc = "dispatch") =>
                 LET c == req'[r].channel.id
                 IN  (c \in DOMAIN registry /\ registry[c].status = ChannelStatusDisabled)
                         => now - registry[c].updated_at <= CacheTtl
          /\ (req[r].pc = "cacheGet" /\ req'[r].code = "no_channel_available") =>
                 \A c \in DOMAIN registry :
                     (registry[c].status = ChannelStatusEnabled
                         /\ ServesModel(registry[c], req[r].model))
                         => now - registry[c].updated_at <= CacheTtl]_vars

\* C23 (as claimed): once no request is between its registry read and its cache
\* write, the list the cache holds for a model is the list the latest registry
\* read for that model returned, whatever the order of the reads and the writes
\* and whatever registry write fell between the reads.
C23_RefreshRaceHarmless ==
    \A m \in Models :
        LET readers == SelectSeq(reached.order, LAMBDA r : req[r].model = m)
        IN  (/\ readers # << >>
             /\ \A i \in 1..Len(readers) : req[readers[i]].pc # "cacheSet") =>
                /\ cache[m].present
                /\ cache[m].value = req[readers[Len(readers)]].channels

====
